---- MODULE Spec2Model ----
(***************************************************************************)
(* A model of the tutorial scripts of the repository.  Each script is a    *)
(* straight-line program: one run executes one script from its first line  *)
(* to its last, or until an exception ends it.  The variable `script`      *)
(* names the script that is running and `pc` its position.                 *)
(*                                                                         *)
(* What the scripts take from outside is drawn in Init: the lengths of the *)
(* datasets found on disk, the command line, the framework version.  What  *)
(* the opaque framework calls return (losses, accuracies) and whether they *)
(* raise is drawn in the action that makes the call.                       *)
(***************************************************************************)
EXTENDS Integers, Sequences, FiniteSets

VARIABLES
    script,                     \* the script this run executes
    pc,                         \* its position
    failure,                    \* the exception that ended it, or "none"
    loads,                      \* ghost: calls that loaded the dataset
    train_steps,                \* ghost: training invocations executed
    \* tensorflow2/keras/demo_code_only.py
    mnist_train_len,            \* length of the MNIST training set on disk
    mnist_test_len,             \* length of the MNIST test set on disk
    x_train_len,                \* x_train.shape[0]
    x_test_len,                 \* x_test.shape[0]
    train_data_len,
    test_data_len,
    train_steps_per_execution,
    test_steps_per_execution,
    num_replicas,
    \* make_divisible, taken alone
    number,
    divisor,
    result,
    again,
    tf2,                        \* simple_applications/tensorflow2/mnist/mnist_code_only.py
    pt,                         \* simple_applications/pytorch/mnist/mnist_poptorch_code_only.py
    t1,                         \* tutorials/pytorch/tut1_basics/walkthrough_code_only.py
    tf1,                        \* tutorials/tensorflow1/basics/tut1_porting_a_model/example_1.py, example_1_gpu.py
    t2                          \* tutorials/pytorch/tut2_efficient_data_loading/walkthrough_code_only.py

commonVars == <<script, pc, failure, loads, train_steps>>
demoVars == <<mnist_train_len, mnist_test_len, x_train_len, x_test_len,
              train_data_len, test_data_len, train_steps_per_execution,
              test_steps_per_execution, num_replicas>>
mdVars == <<number, divisor, result, again>>
vars == <<commonVars, demoVars, mdVars, tf2, pt, t1, tf1, t2>>

(***************************************************************************)
(* Bounds of the model.                                                    *)
(***************************************************************************)
MaxDataLen == 640               \* longest MNIST train / test set drawn
MaxNumber == 40                 \* make_divisible alone: largest number
MaxDivisor == 9                 \* make_divisible alone: largest divisor
MaxTf1Len == 66                 \* longest Fashion-MNIST training set drawn
MaxEpochsArg == 2               \* the value drawn for --epochs when given

(***************************************************************************)
(* demo_code_only.py: constants and pure helpers.                          *)
(***************************************************************************)
batch_size == 64
gradient_accumulation_steps_per_replica == 8

\* A mutant of make_divisible: rounds up instead of down.
make_divisible_up(n, d) == IF n % d = 0 THEN n ELSE n - (n % d) + d

\* def make_divisible(number, divisor): return number - number % divisor
\* Only applied to a divisor > 0; the callers raise ZeroDivisionError
\* themselves for a divisor of 0 (see Adjust).
make_divisible(n, d) == n - (n % d)

\* The dataset lengths drawn: every length up to MaxDataLen that sits on a
\* batch boundary, one above it, or one below it.
DataLens == {n \in 0..MaxDataLen : n % batch_size \in {0, 1, batch_size - 1}}

\* A mutant of ReplStepsPerExecution: the steps are not made divisible.
ReplStepsPerExecutionRaw(len, r, m) == len \div (batch_size * r)

\* A mutant of ReplStepsPerExecution: one step too few before rounding.
ReplStepsPerExecutionShort(len, r, m) ==
    IF len \div (batch_size * r) = 0 THEN 0
    ELSE make_divisible((len \div (batch_size * r)) - 1, m)

\* steps_per_execution of the replication and pipelining sections:
\*   s = len // (batch_size * num_replicas); s = make_divisible(s, m)
\* with m = num_replicas (replication) or total_gradient_accumulation_steps
\* (pipelining).  m >= 1 in both.
ReplStepsPerExecution(len, r, m) ==
    make_divisible(len \div (batch_size * r), m)

\* steps_per_execution of the steps_per_execution section: len // batch_size
SpeStepsPerExecution(len) == len \div batch_size

\* make_divisible(len, s * batch_size) raises ZeroDivisionError when s = 0.
AdjustRaises(s) == s * batch_size = 0

\* x[:k] for k >= 0: the first k items, or all of them when there are fewer.
Slice(len, k) == IF k < len THEN k ELSE len

\* valid from line 202 on, where num_replicas is 1
total_gradient_accumulation_steps ==
    gradient_accumulation_steps_per_replica * num_replicas

(***************************************************************************)
(* Control flow shared by the scripts.                                     *)
(***************************************************************************)
Goto(p) == pc' = p /\ failure' = failure

\* An uncaught exception ends the script.
Raise(e) == pc' = "failed" /\ failure' = e

At(s, p) == script = s /\ pc = p

(***************************************************************************)
(* demo_code_only.py                                                       *)
(***************************************************************************)
\* A mutant of load_data: the arrays of the section before are used again.
load_data_skipped ==
    /\ x_train_len' = x_train_len
    /\ x_test_len' = x_test_len
    /\ loads' = loads

\* (x_train, y_train), (x_test, y_test) = load_data()
load_data ==
    /\ x_train_len' = mnist_train_len
    /\ x_test_len' = mnist_test_len
    /\ loads' = loads + 1

\* model.compile(...); model.fit(...); model.compile(...); model.evaluate(...)
FitAndEvaluate == train_steps' = train_steps + 1

\* A mutant of AdjustTrain: the length is made divisible by the batch size
\* alone, as in the section before steps_per_execution is introduced.
AdjustTrainByBatch(s, next) ==
    /\ train_steps_per_execution' = s
    /\ IF AdjustRaises(s)
          THEN /\ train_data_len' = x_train_len
               /\ x_train_len' = x_train_len
               /\ Raise("ZeroDivisionError")
          ELSE /\ train_data_len' = make_divisible(x_train_len, batch_size)
               /\ x_train_len' = Slice(x_train_len, train_data_len')
               /\ Goto(next)

\* train_data_len = x_train.shape[0]; <s computed from it>;
\* train_data_len = make_divisible(train_data_len, s * batch_size)
\* x_train, y_train = x_train[:train_data_len], y_train[:train_data_len]
AdjustTrain(s, next) ==
    /\ train_steps_per_execution' = s
    /\ IF AdjustRaises(s)
          THEN /\ train_data_len' = x_train_len
               /\ x_train_len' = x_train_len
               /\ Raise("ZeroDivisionError")
          ELSE /\ train_data_len' = make_divisible(x_train_len, s * batch_size)
               /\ x_train_len' = Slice(x_train_len, train_data_len')
               /\ Goto(next)

AdjustTest(s, next) ==
    /\ test_steps_per_execution' = s
    /\ IF AdjustRaises(s)
          THEN /\ test_data_len' = x_test_len
               /\ x_test_len' = x_test_len
               /\ Raise("ZeroDivisionError")
          ELSE /\ test_data_len' = make_divisible(x_test_len, s * batch_size)
               /\ x_test_len' = Slice(x_test_len, test_data_len')
               /\ Goto(next)

notDemo == <<mdVars, tf2, pt, t1, tf1, t2>>
demoInputs == <<script, mnist_train_len, mnist_test_len>>
trainVars == <<x_train_len, train_data_len, train_steps_per_execution>>
testVars == <<x_test_len, test_data_len, test_steps_per_execution>>
lenVars == <<trainVars, testVars>>

\* line 67
CpuLoad ==
    /\ At("demo", "cpu_load")
    /\ load_data
    /\ Goto("cpu_run")
    /\ UNCHANGED <<demoInputs, train_steps, train_data_len, test_data_len,
                   train_steps_per_execution, test_steps_per_execution,
                   num_replicas, notDemo>>

\* lines 69-82
CpuRun ==
    /\ At("demo", "cpu_run")
    /\ FitAndEvaluate
    /\ Goto("ipu_load")
    /\ UNCHANGED <<demoInputs, loads, lenVars, num_replicas, notDemo>>

\* line 91
IpuLoad ==
    /\ At("demo", "ipu_load")
    /\ load_data
    /\ Goto("ipu_adjust_train")
    /\ UNCHANGED <<demoInputs, train_steps, train_data_len, test_data_len,
                   train_steps_per_execution, test_steps_per_execution,
                   num_replicas, notDemo>>

\* lines 93-95
IpuAdjustTrain ==
    /\ At("demo", "ipu_adjust_train")
    /\ train_data_len' = make_divisible(x_train_len, batch_size)
    /\ x_train_len' = Slice(x_train_len, train_data_len')
    /\ Goto("ipu_adjust_test")
    /\ UNCHANGED <<demoInputs, loads, train_steps, train_steps_per_execution,
                   testVars, num_replicas, notDemo>>

\* lines 97-99
IpuAdjustTest ==
    /\ At("demo", "ipu_adjust_test")
    /\ test_data_len' = make_divisible(x_test_len, batch_size)
    /\ x_test_len' = Slice(x_test_len, test_data_len')
    /\ Goto("ipu_run")
    /\ UNCHANGED <<demoInputs, loads, train_steps, test_steps_per_execution,
                   trainVars, num_replicas, notDemo>>

\* lines 101-121
IpuRun ==
    /\ At("demo", "ipu_run")
    /\ FitAndEvaluate
    /\ Goto("spe_load")
    /\ UNCHANGED <<demoInputs, loads, lenVars, num_replicas, notDemo>>

\* line 123
SpeLoad ==
    /\ At("demo", "spe_load")
    /\ load_data
    /\ Goto("spe_adjust_train")
    /\ UNCHANGED <<demoInputs, train_steps, train_data_len, test_data_len,
                   train_steps_per_execution, test_steps_per_execution,
                   num_replicas, notDemo>>

\* lines 125-128
SpeAdjustTrain ==
    /\ At("demo", "spe_adjust_train")
    /\ AdjustTrain(SpeStepsPerExecution(x_train_len), "spe_adjust_test")
    /\ UNCHANGED <<demoInputs, loads, train_steps, testVars, num_replicas,
                   notDemo>>

\* lines 130-133
SpeAdjustTest ==
    /\ At("demo", "spe_adjust_test")
    /\ AdjustTest(SpeStepsPerExecution(x_test_len), "spe_run")
    /\ UNCHANGED <<demoInputs, loads, train_steps, trainVars, num_replicas,
                   notDemo>>

\* lines 135-152
SpeRun ==
    /\ At("demo", "spe_run")
    /\ FitAndEvaluate
    /\ Goto("repl_load")
    /\ UNCHANGED <<demoInputs, loads, lenVars, num_replicas, notDemo>>

\* lines 154-156: num_ipus = num_replicas = 2, then load_data()
ReplLoad ==
    /\ At("demo", "repl_load")
    /\ num_replicas' = 2
    /\ load_data
    /\ Goto("repl_adjust_train")
    /\ UNCHANGED <<demoInputs, train_steps, train_data_len, test_data_len,
                   train_steps_per_execution, test_steps_per_execution,
                   notDemo>>

\* lines 159-164
ReplAdjustTrain ==
    /\ At("demo", "repl_adjust_train")
    /\ AdjustTrain(ReplStepsPerExecution(x_train_len, num_replicas, num_replicas),
                   "repl_adjust_test")
    /\ UNCHANGED <<demoInputs, loads, train_steps, testVars, num_replicas,
                   notDemo>>

\* lines 166-171
ReplAdjustTest ==
    /\ At("demo", "repl_adjust_test")
    /\ AdjustTest(ReplStepsPerExecution(x_test_len, num_replicas, num_replicas),
                  "repl_run")
    /\ UNCHANGED <<demoInputs, loads, train_steps, trainVars, num_replicas,
                   notDemo>>

\* lines 173-194
ReplRun ==
    /\ At("demo", "repl_run")
    /\ FitAndEvaluate
    /\ Goto("pipe_load")
    /\ UNCHANGED <<demoInputs, loads, lenVars, num_replicas, notDemo>>

\* lines 196-202: num_ipus = 2; num_replicas = num_ipus // 2; load_data()
PipeLoad ==
    /\ At("demo", "pipe_load")
    /\ num_replicas' = 2 \div 2
    /\ load_data
    /\ Goto("pipe_adjust_train")
    /\ UNCHANGED <<demoInputs, train_steps, train_data_len, test_data_len,
                   train_steps_per_execution, test_steps_per_execution,
                   notDemo>>

\* lines 205-210
PipeAdjustTrain ==
    /\ At("demo", "pipe_adjust_train")
    /\ AdjustTrain(ReplStepsPerExecution(x_train_len, num_replicas,
                                         total_gradient_accumulation_steps),
                   "pipe_adjust_test")
    /\ UNCHANGED <<demoInputs, loads, train_steps, testVars, num_replicas,
                   notDemo>>

\* lines 212-217
PipeAdjustTest ==
    /\ At("demo", "pipe_adjust_test")
    /\ AdjustTest(ReplStepsPerExecution(x_test_len, num_replicas,
                                        total_gradient_accumulation_steps),
                  "pipe_run")
    /\ UNCHANGED <<demoInputs, loads, train_steps, trainVars, num_replicas,
                   notDemo>>

\* lines 240-262
PipeRun ==
    /\ At("demo", "pipe_run")
    /\ FitAndEvaluate
    /\ Goto("done")
    /\ UNCHANGED <<demoInputs, loads, lenVars, num_replicas, notDemo>>

DemoNext ==
    \/ CpuLoad \/ CpuRun
    \/ IpuLoad \/ IpuAdjustTrain \/ IpuAdjustTest \/ IpuRun
    \/ SpeLoad \/ SpeAdjustTrain \/ SpeAdjustTest \/ SpeRun
    \/ ReplLoad \/ ReplAdjustTrain \/ ReplAdjustTest \/ ReplRun
    \/ PipeLoad \/ PipeAdjustTrain \/ PipeAdjustTest \/ PipeRun

\* Before line 67 nothing is bound; the lengths are shown as 0 and
\* num_replicas, which the first three sections do not have, as 1.
DemoIdle ==
    /\ x_train_len = 0 /\ x_test_len = 0
    /\ train_data_len = 0 /\ test_data_len = 0
    /\ train_steps_per_execution = 0 /\ test_steps_per_execution = 0
    /\ num_replicas = 1

DemoInputsIdle == mnist_train_len = 0 /\ mnist_test_len = 0

NoModel == [deviceIterations |-> 0, lr |-> 0, attached |-> FALSE,
            detached |-> FALSE, exists |-> FALSE]

T1Idle ==
    [train_dataset |-> 0, test_dataset |-> 0, train_dataloader |-> 0,
     test_dataloader |-> 0, epochs |-> 0, epoch |-> 0, step |-> 0,
     poptorch_model |-> NoModel, poptorch_model_inf |-> NoModel,
     saved |-> FALSE, inference_calls |-> 0]

Tf1Idle ==
    [x_train |-> 0, batches_per_epoch |-> 0, iterator_initialised |-> FALSE,
     i |-> 0, j |-> 0, loss_running_total |-> 0, printed |-> <<>>,
     step_losses |-> <<>>, iterator_pos |-> 0, full_batches |-> 0]

NoOptions == [deviceIterations |-> 1, replicationFactor |-> 1,
              synthetic |-> FALSE]

T2Idle ==
    [is_main |-> FALSE, main_has_file |-> FALSE,
     opts |-> NoOptions, training_model |-> NoOptions, has_model |-> FALSE,
     loaders |-> <<>>, steps |-> 0, k |-> 0, seconds |-> "unset",
     call |-> 0, v_opts |-> NoOptions, has_batch |-> FALSE,
     printed_notice |-> FALSE, exit_status |-> <<>>,
     data_batch |-> [deviceIterations |-> 0, replicationFactor |-> 0],
     invoked |-> <<>>]

Start(s, p) ==
    /\ script = s /\ pc = p /\ failure = "none"
    /\ loads = 0 /\ train_steps = 0

DemoInit ==
    /\ Start("demo", "cpu_load")
    /\ mnist_train_len \in DataLens
    /\ mnist_test_len \in DataLens
    /\ DemoIdle

(***************************************************************************)
(* simple_applications/tensorflow2/mnist/mnist_code_only.py                *)
(***************************************************************************)
\* tf.__version__ as a sequence of characters
Versions == {<<"1", ".", "1", "5">>, <<"2", ".", "6">>, <<"2", "0", ".", "1">>,
             <<"3", ".", "0">>, <<"1", "2", ".", "0">>}

\* A mutant of WrongVersion: rejects TensorFlow 1 only.
WrongVersionOnlyOne(version) == version[1] = "1"

\* if tf.__version__[0] != '2'
WrongVersion(version) == version[1] # "2"

\* lines 18, 50-53: the literals of the dataset, of compile and of fit
Tf2 == [batch |-> 32, steps_per_execution |-> 100, steps_per_epoch |-> 2000,
        epochs |-> 4]

\* The MNIST training set on disk; 60000 is the real one.
Tf2Lens == {0, 31, 32, 3200, 60000}

\* A mutant of BatchThenRepeat: the dataset is not repeated, its one pass
\* ends after n \div batch batches.
BatchNoRepeat(n, batch, k, want) ==
    LET left == IF n \div batch > k THEN n \div batch - k ELSE 0
        got == IF want <= left THEN want ELSE left
    IN [got |-> got, k |-> k + got]

\* .batch(batch, drop_remainder=True) ... .repeat() over n items, asked for
\* `want` batches by an iterator that is k batches into a pass: a pass has
\* n \div batch full batches, and a new pass starts when one ends, unless a
\* pass is empty.
BatchThenRepeat(n, batch, k, want) ==
    IF n \div batch = 0
       THEN [got |-> 0, k |-> 0]
       ELSE [got |-> want, k |-> (k + want) % (n \div batch)]

Tf2Idle ==
    [version |-> <<"2">>, effects |-> <<>>, x_train |-> 0,
     iterator |-> FALSE, k |-> 0, steps_done |-> 0, ran_out |-> FALSE]

notTf2 == <<demoVars, mdVars, pt, t1, tf1, t2>>

Tf2Init ==
    /\ Start("mnist_tf2", "tf2_version_check")
    /\ \E v \in Versions, n \in Tf2Lens :
          tf2 = [Tf2Idle EXCEPT !.version = v, !.x_train = n]

\* The calls the script has made, in order.
Tf2Call(name) == tf2' = [tf2 EXCEPT !.effects = Append(@, name)]

\* lines 7-8
Tf2VersionCheck ==
    /\ At("mnist_tf2", "tf2_version_check")
    /\ IF WrongVersion(tf2.version)
          THEN Raise("ImportError")
          ELSE Goto("tf2_configure")
    /\ UNCHANGED <<script, loads, train_steps, tf2, notTf2>>

\* lines 35-37
Tf2Configure ==
    /\ At("mnist_tf2", "tf2_configure")
    /\ Tf2Call("configure_ipu_system")
    /\ Goto("tf2_strategy")
    /\ UNCHANGED <<script, loads, train_steps, notTf2>>

\* line 40
Tf2Strategy ==
    /\ At("mnist_tf2", "tf2_strategy")
    /\ Tf2Call("IPUStrategy")
    /\ Goto("tf2_create_model")
    /\ UNCHANGED <<script, loads, train_steps, notTf2>>

\* line 44
Tf2CreateModel ==
    /\ At("mnist_tf2", "tf2_create_model")
    /\ Tf2Call("create_model")
    /\ Goto("tf2_create_dataset")
    /\ UNCHANGED <<script, loads, train_steps, notTf2>>

\* line 47 (create_dataset, lines 11-23)
Tf2CreateDataset ==
    /\ At("mnist_tf2", "tf2_create_dataset")
    /\ Tf2Call("create_dataset")
    /\ loads' = loads + 1
    /\ Goto("tf2_compile")
    /\ UNCHANGED <<script, train_steps, notTf2>>

\* lines 50-52
Tf2Compile ==
    /\ At("mnist_tf2", "tf2_compile")
    /\ Tf2Call("compile")
    /\ Goto("tf2_fit")
    /\ UNCHANGED <<script, loads, train_steps, notTf2>>

\* line 53: fit makes its iterator over the dataset
Tf2Fit ==
    /\ At("mnist_tf2", "tf2_fit")
    /\ tf2' = [tf2 EXCEPT !.effects = Append(@, "fit"), !.iterator = TRUE,
                          !.k = 0, !.steps_done = 0]
    /\ Goto("tf2_execution")
    /\ UNCHANGED <<script, loads, train_steps, notTf2>>

\* line 53: one execution of fit, steps_per_execution training steps with
\* one batch each
Tf2Execution ==
    /\ At("mnist_tf2", "tf2_execution")
    /\ tf2.steps_done < Tf2.epochs * Tf2.steps_per_epoch
    /\ LET b == BatchThenRepeat(tf2.x_train, Tf2.batch, tf2.k,
                                Tf2.steps_per_execution)
       IN /\ b.got = Tf2.steps_per_execution
          /\ tf2' = [tf2 EXCEPT !.k = b.k, !.steps_done = @ + b.got]
          /\ train_steps' = train_steps + b.got
    /\ Goto("tf2_execution")
    /\ UNCHANGED <<script, loads, notTf2>>

\* line 53: the dataset has no batch left for an execution.  Keras either
\* warns that the input ran out of data and ends the training, or raises.
Tf2RanOut ==
    /\ At("mnist_tf2", "tf2_execution")
    /\ tf2.steps_done < Tf2.epochs * Tf2.steps_per_epoch
    /\ LET b == BatchThenRepeat(tf2.x_train, Tf2.batch, tf2.k,
                                Tf2.steps_per_execution)
       IN /\ b.got < Tf2.steps_per_execution
          /\ tf2' = [tf2 EXCEPT !.k = b.k, !.ran_out = TRUE]
    /\ \/ Goto("done")
       \/ Raise("OutOfRangeError")
    /\ UNCHANGED <<script, loads, train_steps, notTf2>>

\* line 53: epochs * steps_per_epoch steps are done
Tf2FitEnd ==
    /\ At("mnist_tf2", "tf2_execution")
    /\ tf2.steps_done = Tf2.epochs * Tf2.steps_per_epoch
    /\ Goto("done")
    /\ UNCHANGED <<script, loads, train_steps, tf2, notTf2>>

Tf2Next ==
    \/ Tf2VersionCheck \/ Tf2Configure \/ Tf2Strategy \/ Tf2CreateModel
    \/ Tf2CreateDataset \/ Tf2Compile \/ Tf2Fit \/ Tf2Execution
    \/ Tf2RanOut \/ Tf2FitEnd

(***************************************************************************)
(* poptorch.DataLoader, as the PyTorch scripts use it                      *)
(***************************************************************************)
\* len() of a poptorch.DataLoader that drops the last incomplete batch: one
\* item of the loader holds batch_size * deviceIterations * replicationFactor
\* samples.
LoaderLen(dataset_len, batch, device_iters, replication) ==
    dataset_len \div (batch * device_iters * replication)

(***************************************************************************)
(* simple_applications/pytorch/mnist/mnist_poptorch_code_only.py           *)
(* Learning rates are in hundredths: 3 is 0.03.                            *)
(***************************************************************************)
Flags == {"batch_size", "device_iterations", "test_batch_size", "epochs", "lr"}

\* parser.add_argument(..., default=...)
ArgDefaults == [batch_size |-> 8, device_iterations |-> 50,
                test_batch_size |-> 80, epochs |-> 10, lr |-> 5]

\* The value drawn for a flag that is given on the command line.
ArgGiven == [batch_size |-> 4, device_iterations |-> 10,
             test_batch_size |-> 40, epochs |-> MaxEpochsArg, lr |-> 10]

\* A command line: each flag is absent (<<>>) or given with one value.
ArgvSet == [Flags -> {"absent", "given"}]

\* opts = parser.parse_args()
parse_args(argv) ==
    [f \in Flags |-> IF argv[f] = "absent" THEN ArgDefaults[f] ELSE ArgGiven[f]]

\* The MNIST training and test sets on disk.
PtTrainLens == {0, 450, 900}
PtTestLens == {0, 79, 80, 170}

\* accuracy() of metrics.py: a percentage.
AccuracyValues == {0, 50, 100}

NoLoader == [deviceIterations |-> 0, batch_size |-> 0, len |-> 0]
PtIdle ==
    [argv |-> [f \in Flags |-> "absent"], opts |-> [f \in Flags |-> 0],
     learning_rate |-> 0, epochs |-> 0, batch_size |-> 0,
     test_batch_size |-> 0, device_iterations |-> 0,
     training_dataset |-> 0, test_dataset |-> 0,
     training_opts |-> 0, training_data |-> NoLoader, test_data |-> NoLoader,
     training_model |-> NoModel, inference_model |-> FALSE,
     inference_calls |-> 0,
     nr_steps |-> 0, epoch |-> 0, step |-> 0, sum_acc |-> 0,
     reported |-> <<>>]

notPt == <<demoVars, mdVars, tf2, t1, tf1, t2>>

PtInit ==
    /\ Start("mnist_poptorch", "pt_literals")
    /\ \E a \in ArgvSet, n \in PtTrainLens, m \in PtTestLens :
          pt = [PtIdle EXCEPT !.argv = a, !.training_dataset = n,
                              !.test_dataset = m]

\* lines 9-15
PtLiterals ==
    /\ At("mnist_poptorch", "pt_literals")
    /\ pt' = [pt EXCEPT !.learning_rate = 3, !.epochs = 10, !.batch_size = 8,
                        !.test_batch_size = 80]
    /\ Goto("pt_parse_args")
    /\ UNCHANGED <<script, loads, train_steps, notPt>>

\* lines 17-24
PtParseArgs ==
    /\ At("mnist_poptorch", "pt_parse_args")
    /\ pt' = [pt EXCEPT !.opts = parse_args(pt.argv)]
    /\ Goto("pt_assign")
    /\ UNCHANGED <<script, loads, train_steps, notPt>>

\* lines 26-30
PtAssign ==
    /\ At("mnist_poptorch", "pt_assign")
    /\ pt' = [pt EXCEPT !.learning_rate = pt.opts.lr,
                        !.epochs = pt.opts.epochs,
                        !.batch_size = pt.opts.batch_size,
                        !.test_batch_size = pt.opts.test_batch_size,
                        !.device_iterations = pt.opts.device_iterations]
    /\ Goto("pt_override")
    /\ UNCHANGED <<script, loads, train_steps, notPt>>

\* line 32: device_iterations = 50
PtOverride ==
    /\ At("mnist_poptorch", "pt_override")
    /\ pt' = [pt EXCEPT !.device_iterations = 50]
    /\ Goto("pt_datasets")
    /\ UNCHANGED <<script, loads, train_steps, notPt>>

\* lines 34-55: the two torchvision.datasets.MNIST objects
PtDatasets ==
    /\ At("mnist_poptorch", "pt_datasets")
    /\ loads' = loads + 1
    /\ Goto("pt_training_data")
    /\ UNCHANGED <<script, train_steps, pt, notPt>>

\* lines 57-66
PtTrainingData ==
    /\ At("mnist_poptorch", "pt_training_data")
    /\ pt' = [pt EXCEPT
          !.training_opts = pt.device_iterations,
          !.training_data =
              [deviceIterations |-> pt.device_iterations,
               batch_size |-> pt.batch_size,
               len |-> LoaderLen(pt.training_dataset, pt.batch_size,
                                 pt.device_iterations, 1)]]
    /\ Goto("pt_test_data")
    /\ UNCHANGED <<script, loads, train_steps, notPt>>

\* lines 68-74: options=poptorch.Options(), one device iteration
PtTestData ==
    /\ At("mnist_poptorch", "pt_test_data")
    /\ pt' = [pt EXCEPT
          !.test_data =
              [deviceIterations |-> 1,
               batch_size |-> pt.test_batch_size,
               len |-> LoaderLen(pt.test_dataset, pt.test_batch_size, 1, 1)]]
    /\ Goto("pt_training_model")
    /\ UNCHANGED <<script, loads, train_steps, notPt>>

\* lines 130-143
PtTrainingModel ==
    /\ At("mnist_poptorch", "pt_training_model")
    /\ pt' = [pt EXCEPT
          !.training_opts = pt.device_iterations,
          !.training_model =
              [deviceIterations |-> pt.device_iterations,
               lr |-> pt.learning_rate, attached |-> FALSE,
               detached |-> FALSE, exists |-> TRUE]]
    /\ Goto("pt_nr_steps")
    /\ UNCHANGED <<script, loads, train_steps, notPt>>

\* lines 145-147, and the first epoch of line 149
PtNrSteps ==
    /\ At("mnist_poptorch", "pt_nr_steps")
    /\ pt' = [pt EXCEPT !.nr_steps = pt.training_data.len, !.epoch = 1,
                        !.step = 0]
    /\ Goto("pt_train_loop")
    /\ UNCHANGED <<script, loads, train_steps, notPt>>

\* lines 151-159: one batch of the loader through training_model, which
\* compiles and attaches to the device on its first call
PtTrainStep ==
    /\ At("mnist_poptorch", "pt_train_loop")
    /\ pt.epoch <= pt.epochs
    /\ pt.step < pt.training_data.len
    /\ pt' = [pt EXCEPT !.step = @ + 1, !.training_model.attached = TRUE]
    /\ train_steps' = train_steps + 1
    /\ Goto("pt_train_loop")
    /\ UNCHANGED <<script, loads, notPt>>

\* line 152 raising
PtTrainStepFails ==
    /\ At("mnist_poptorch", "pt_train_loop")
    /\ pt.epoch <= pt.epochs
    /\ pt.step < pt.training_data.len
    /\ Raise("StepError")
    /\ UNCHANGED <<script, loads, train_steps, pt, notPt>>

\* lines 149-150: the loader is exhausted, the next epoch starts
PtNextEpoch ==
    /\ At("mnist_poptorch", "pt_train_loop")
    /\ pt.epoch <= pt.epochs
    /\ pt.step = pt.training_data.len
    /\ pt' = [pt EXCEPT !.epoch = @ + 1, !.step = 0]
    /\ Goto("pt_train_loop")
    /\ UNCHANGED <<script, loads, train_steps, notPt>>

\* line 161
PtDetach ==
    /\ At("mnist_poptorch", "pt_train_loop")
    /\ pt.epoch > pt.epochs
    /\ pt' = [pt EXCEPT !.training_model.attached = FALSE,
                        !.training_model.detached = TRUE]
    /\ Goto("pt_inference_model")
    /\ UNCHANGED <<script, loads, train_steps, notPt>>

\* lines 163-166
PtInferenceModel ==
    /\ At("mnist_poptorch", "pt_inference_model")
    /\ pt' = [pt EXCEPT !.inference_model = TRUE,
                        !.nr_steps = pt.test_data.len,
                        !.sum_acc = 0, !.step = 0]
    /\ Goto("pt_test_loop")
    /\ UNCHANGED <<script, loads, train_steps, notPt>>

\* lines 168-170
PtTestStep ==
    /\ At("mnist_poptorch", "pt_test_loop")
    /\ pt.step < pt.test_data.len
    /\ \E acc \in AccuracyValues :
          pt' = [pt EXCEPT !.step = @ + 1, !.sum_acc = @ + acc,
                           !.inference_calls = @ + 1]
    /\ Goto("pt_test_loop")
    /\ UNCHANGED <<script, loads, train_steps, notPt>>

\* line 172: print(... sum_acc / len(test_data))
PtReport ==
    /\ At("mnist_poptorch", "pt_test_loop")
    /\ pt.step = pt.test_data.len
    /\ IF pt.test_data.len = 0
          THEN /\ Raise("ZeroDivisionError")
               /\ pt' = pt
          ELSE /\ pt' = [pt EXCEPT !.reported =
                            <<[sum |-> pt.sum_acc, batches |-> pt.test_data.len]>>]
               /\ Goto("done")
    /\ UNCHANGED <<script, loads, train_steps, notPt>>

PtNext ==
    \/ PtLiterals \/ PtParseArgs \/ PtAssign \/ PtOverride \/ PtDatasets
    \/ PtTrainingData \/ PtTestData \/ PtTrainingModel \/ PtNrSteps
    \/ PtTrainStep \/ PtTrainStepFails \/ PtNextEpoch \/ PtDetach
    \/ PtInferenceModel \/ PtTestStep \/ PtReport

(***************************************************************************)
(* tutorials/pytorch/tut1_basics/walkthrough_code_only.py                  *)
(***************************************************************************)
\* The FashionMNIST training and test sets on disk.
T1TrainLens == {0, 16, 40}
T1TestLens == {0, 32, 70}

notT1 == <<demoVars, mdVars, tf2, pt, tf1, t2>>

T1Init ==
    /\ Start("tut1", "t1_datasets")
    /\ \E n \in T1TrainLens, m \in T1TestLens :
          t1 = [T1Idle EXCEPT !.train_dataset = n, !.test_dataset = m]

\* lines 14-18
T1Datasets ==
    /\ At("tut1", "t1_datasets")
    /\ loads' = loads + 1
    /\ Goto("t1_plot")
    /\ UNCHANGED <<script, train_steps, t1, notT1>>

\* lines 20-32: the first 15 images are plotted
T1Plot ==
    /\ At("tut1", "t1_plot")
    /\ Goto("t1_train_dataloader")
    /\ UNCHANGED <<script, loads, train_steps, t1, notT1>>

\* lines 61-70
T1TrainDataloader ==
    /\ At("tut1", "t1_train_dataloader")
    /\ t1' = [t1 EXCEPT !.train_dataloader = LoaderLen(t1.train_dataset, 16, 1, 1)]
    /\ Goto("t1_training_model")
    /\ UNCHANGED <<script, loads, train_steps, notT1>>

\* lines 72-78, and the first epoch of lines 79-80
T1TrainingModel ==
    /\ At("tut1", "t1_training_model")
    /\ t1' = [t1 EXCEPT !.poptorch_model =
                            [deviceIterations |-> 1, lr |-> 0,
                             attached |-> FALSE, detached |-> FALSE,
                             exists |-> TRUE],
                        !.epochs = 30, !.epoch = 0, !.step = 0]
    /\ Goto("t1_train_loop")
    /\ UNCHANGED <<script, loads, train_steps, notT1>>

\* lines 81-83
T1TrainStep ==
    /\ At("tut1", "t1_train_loop")
    /\ t1.epoch < t1.epochs
    /\ t1.step < t1.train_dataloader
    /\ t1' = [t1 EXCEPT !.step = @ + 1, !.poptorch_model.attached = TRUE]
    /\ train_steps' = train_steps + 1
    /\ Goto("t1_train_loop")
    /\ UNCHANGED <<script, loads, notT1>>

\* line 82 raising
T1TrainStepFails ==
    /\ At("tut1", "t1_train_loop")
    /\ t1.epoch < t1.epochs
    /\ t1.step < t1.train_dataloader
    /\ Raise("StepError")
    /\ UNCHANGED <<script, loads, train_steps, t1, notT1>>

\* lines 79-80: the loader is exhausted, the next epoch starts
T1NextEpoch ==
    /\ At("tut1", "t1_train_loop")
    /\ t1.epoch < t1.epochs
    /\ t1.step = t1.train_dataloader
    /\ t1' = [t1 EXCEPT !.epoch = @ + 1, !.step = 0]
    /\ Goto("t1_train_loop")
    /\ UNCHANGED <<script, loads, train_steps, notT1>>

\* line 85
T1Detach ==
    /\ At("tut1", "t1_train_loop")
    /\ t1.epoch >= t1.epochs
    /\ t1' = [t1 EXCEPT !.poptorch_model.attached = FALSE,
                        !.poptorch_model.detached = TRUE]
    /\ Goto("t1_save")
    /\ UNCHANGED <<script, loads, train_steps, notT1>>

\* A mutant of T1Save: the weights are not saved.
T1SaveSkipped ==
    /\ At("tut1", "t1_save")
    /\ Goto("t1_inference_model")
    /\ UNCHANGED <<script, loads, train_steps, t1, notT1>>

\* line 87: torch.save(model.state_dict(), "classifier.pth")
T1Save ==
    /\ At("tut1", "t1_save")
    /\ t1' = [t1 EXCEPT !.saved = TRUE]
    /\ Goto("t1_inference_model")
    /\ UNCHANGED <<script, loads, train_steps, notT1>>

\* lines 89-98
T1InferenceModel ==
    /\ At("tut1", "t1_inference_model")
    /\ t1' = [t1 EXCEPT !.poptorch_model_inf =
                            [deviceIterations |-> 1, lr |-> 0,
                             attached |-> FALSE, detached |-> FALSE,
                             exists |-> TRUE],
                        !.test_dataloader = LoaderLen(t1.test_dataset, 32, 1, 1),
                        !.step = 0]
    /\ Goto("t1_test_loop")
    /\ UNCHANGED <<script, loads, train_steps, notT1>>

\* lines 99-101
T1InferStep ==
    /\ At("tut1", "t1_test_loop")
    /\ t1.step < t1.test_dataloader
    /\ t1' = [t1 EXCEPT !.step = @ + 1, !.inference_calls = @ + 1,
                        !.poptorch_model_inf.attached = TRUE]
    /\ Goto("t1_test_loop")
    /\ UNCHANGED <<script, loads, train_steps, notT1>>

\* lines 103-119
T1DetachInf ==
    /\ At("tut1", "t1_test_loop")
    /\ t1.step = t1.test_dataloader
    /\ t1' = [t1 EXCEPT !.poptorch_model_inf.attached = FALSE,
                        !.poptorch_model_inf.detached = TRUE]
    /\ Goto("done")
    /\ UNCHANGED <<script, loads, train_steps, notT1>>

T1Next ==
    \/ T1Datasets \/ T1Plot \/ T1TrainDataloader \/ T1TrainingModel
    \/ T1TrainStep \/ T1TrainStepFails \/ T1NextEpoch \/ T1Detach \/ T1Save
    \/ T1InferenceModel \/ T1InferStep \/ T1DetachInf

(***************************************************************************)
(* tutorials/tensorflow1/basics/tut1_porting_a_model/example_1.py and      *)
(* example_1_gpu.py: the same program, but that the first configures an    *)
(* IPU.  Line numbers are those of example_1.py.                           *)
(***************************************************************************)
BATCHSIZE == 32
EPOCHS == 5

Tf1Scripts == {"example_1", "example_1_gpu"}

\* The Fashion-MNIST training set on disk.
Tf1Lens == 0..MaxTf1Len

\* The losses a training step may return.
Losses == {1, 2}

notTf1 == <<demoVars, mdVars, tf2, pt, t1, t2>>

Tf1Init ==
    /\ \E s \in Tf1Scripts : Start(s, "tf1_load_data")
    /\ \E n \in Tf1Lens : tf1 = [Tf1Idle EXCEPT !.x_train = n]

\* A mutant of RepeatThenBatch: the dataset is not repeated, the iterator
\* ends with the n items.
BatchOnly(n, batch, pos) ==
    IF pos + batch <= n
       THEN [size |-> batch, pos |-> pos + batch]
       ELSE [size |-> 0, pos |-> pos]

\* lines 24-25: .repeat().batch(batch, drop_remainder=True) over n items,
\* read by an iterator that stands at item pos of a pass: the items of the
\* next pass fill the batch up, unless the dataset is empty.
RepeatThenBatch(n, batch, pos) ==
    IF n = 0
       THEN [size |-> 0, pos |-> 0]
       ELSE [size |-> batch, pos |-> (pos + batch) % n]

\* A mutant of ResetTotal: the running total is carried into the next epoch.
KeepTotal(total) == total

\* line 100: loss_running_total = 0.0
ResetTotal(total) == 0

\* lines 16-25
Tf1LoadData ==
    /\ script \in Tf1Scripts /\ pc = "tf1_load_data"
    /\ loads' = loads + 1
    /\ Goto("tf1_batches_per_epoch")
    /\ UNCHANGED <<script, train_steps, tf1, notTf1>>

\* lines 27-66: batches_per_epoch = len(x_train) // BATCHSIZE
Tf1BatchesPerEpoch ==
    /\ script \in Tf1Scripts /\ pc = "tf1_batches_per_epoch"
    /\ tf1' = [tf1 EXCEPT !.batches_per_epoch = tf1.x_train \div BATCHSIZE]
    /\ Goto(IF script = "example_1" THEN "tf1_configure_ipu" ELSE "tf1_session")
    /\ UNCHANGED <<script, loads, train_steps, notTf1>>

\* lines 72-84, example_1.py only
Tf1ConfigureIpu ==
    /\ At("example_1", "tf1_configure_ipu")
    /\ Goto("tf1_session")
    /\ UNCHANGED <<script, loads, train_steps, tf1, notTf1>>

\* lines 89-93: sess.run(dataset_iterator.initializer)
Tf1Session ==
    /\ script \in Tf1Scripts /\ pc = "tf1_session"
    /\ tf1' = [tf1 EXCEPT !.iterator_initialised = TRUE,
                          !.iterator_pos = 0, !.i = 0]
    /\ Goto("tf1_epoch")
    /\ UNCHANGED <<script, loads, train_steps, notTf1>>

\* lines 95-100
Tf1EpochStart ==
    /\ script \in Tf1Scripts /\ pc = "tf1_epoch"
    /\ tf1.i < EPOCHS
    /\ tf1' = [tf1 EXCEPT !.loss_running_total = ResetTotal(@), !.j = 0]
    /\ Goto("tf1_batch")
    /\ UNCHANGED <<script, loads, train_steps, notTf1>>

\* lines 102-107: the step reads one batch from the iterator
Tf1Step ==
    /\ script \in Tf1Scripts /\ pc = "tf1_batch"
    /\ tf1.j < tf1.batches_per_epoch
    /\ LET b == RepeatThenBatch(tf1.x_train, BATCHSIZE, tf1.iterator_pos)
       IN IF ~tf1.iterator_initialised
             THEN /\ Raise("FailedPreconditionError")
                  /\ UNCHANGED <<tf1, train_steps>>
          ELSE IF b.size < BATCHSIZE
             THEN /\ Raise("OutOfRangeError")
                  /\ UNCHANGED <<tf1, train_steps>>
          ELSE /\ \E loss \in Losses :
                     tf1' = [tf1 EXCEPT !.loss_running_total = @ + loss,
                                        !.j = @ + 1,
                                        !.step_losses = Append(@, loss),
                                        !.iterator_pos = b.pos,
                                        !.full_batches = @ + 1]
               /\ train_steps' = train_steps + 1
               /\ Goto("tf1_batch")
    /\ UNCHANGED <<script, loads, notTf1>>

\* line 105 raising
Tf1StepFails ==
    /\ script \in Tf1Scripts /\ pc = "tf1_batch"
    /\ tf1.j < tf1.batches_per_epoch
    /\ Raise("StepError")
    /\ UNCHANGED <<script, loads, train_steps, tf1, notTf1>>

\* lines 109-112: print("Loss:", loss_running_total/batches_per_epoch)
Tf1ReportLoss ==
    /\ script \in Tf1Scripts /\ pc = "tf1_batch"
    /\ tf1.j = tf1.batches_per_epoch
    /\ IF tf1.batches_per_epoch = 0
          THEN /\ Raise("ZeroDivisionError")
               /\ tf1' = tf1
          ELSE /\ tf1' = [tf1 EXCEPT
                    !.printed = Append(@, [total |-> tf1.loss_running_total,
                                           batches |-> tf1.batches_per_epoch]),
                    !.i = @ + 1]
               /\ Goto("tf1_epoch")
    /\ UNCHANGED <<script, loads, train_steps, notTf1>>

\* line 114
Tf1Finish ==
    /\ script \in Tf1Scripts /\ pc = "tf1_epoch"
    /\ tf1.i = EPOCHS
    /\ Goto("done")
    /\ UNCHANGED <<script, loads, train_steps, tf1, notTf1>>

Tf1Next ==
    \/ Tf1LoadData \/ Tf1BatchesPerEpoch \/ Tf1ConfigureIpu \/ Tf1Session
    \/ Tf1EpochStart \/ Tf1Step \/ Tf1StepFails \/ Tf1ReportLoss \/ Tf1Finish

(***************************************************************************)
(* tutorials/pytorch/tut2_efficient_data_loading/walkthrough_code_only.py  *)
(***************************************************************************)
\* lines 26-29 and 70: the hyperparameters and the size of the dataset
T2 == [device_iterations |-> 50, batch_size |-> 16, replicas |-> 1,
       num_workers |-> 4, dataset |-> 10000]

\* lines 186-200: the arguments of the four validate_model_performance calls
T2Calls ==
    <<[batch_size |-> 16, replicas |-> 1, device_iterations |-> 50,
       synthetic_data |-> TRUE],
      [batch_size |-> 16, replicas |-> 1, device_iterations |-> 50,
       synthetic_data |-> FALSE],
      [batch_size |-> 16, replicas |-> 4, device_iterations |-> 50,
       synthetic_data |-> TRUE],
      [batch_size |-> 16, replicas |-> 4, device_iterations |-> 50,
       synthetic_data |-> FALSE]>>

notT2 == <<demoVars, mdVars, tf2, pt, t1, tf1>>

T2Init ==
    /\ Start("tut2", "t2_guard")
    /\ \E m \in BOOLEAN, f \in BOOLEAN :
          t2 = [T2Idle EXCEPT !.is_main = m, !.main_has_file = f]

\* A mutant of is_interactive: the test of __file__ is inverted.
is_interactive_inverted == t2.main_has_file

\* def is_interactive(): return not hasattr(main, '__file__')
is_interactive == ~t2.main_has_file

\* A mutant of catchtime_exit: __exit__ returns True and so swallows the
\* exception.
catchtime_exit_swallows(exc) == TRUE

\* catchtime.__exit__(type, value, traceback) returns None: whether the
\* exception raised in the with-block is suppressed.
catchtime_exit(exc) == FALSE

\* poptorch.DataLoader(opts, dataset, batch_size, ...), mode Async
NewLoader(o, batch) ==
    [deviceIterations |-> o.deviceIterations,
     replicationFactor |-> o.replicationFactor,
     len |-> LoaderLen(T2.dataset, batch, o.deviceIterations,
                       o.replicationFactor),
     served |-> 0, terminated |-> 0, used_after_terminate |-> FALSE]

\* training_data: the loader created last
Cur == Len(t2.loaders)

\* A batch of a loader: what it keeps of the options of the loader.
BatchOf(l) ==
    [deviceIterations |-> l.deviceIterations,
     replicationFactor |-> l.replicationFactor]

\* training_model(batch, labels): the options the model was built with and
\* the batch it is given.
Invoke(model, batch) ==
    <<[model |-> [deviceIterations |-> model.deviceIterations,
                  replicationFactor |-> model.replicationFactor],
       batch |-> batch]>>

\* iter(training_data): a new pass over the loader
IterLoader(ls) ==
    [ls EXCEPT ![Len(ls)].served = 0,
               ![Len(ls)].used_after_terminate = @ \/ ls[Len(ls)].terminated > 0]

\* next() on the loader's iterator
NextBatch(ls) ==
    [ls EXCEPT ![Len(ls)].served = @ + 1,
               ![Len(ls)].used_after_terminate = @ \/ ls[Len(ls)].terminated > 0]

\* A mutant of TerminateLoader: the workers are left running.
TerminateLoaderNot(ls) == ls

\* training_data.terminate()
TerminateLoader(ls) == [ls EXCEPT ![Len(ls)].terminated = @ + 1]

\* An exception raised inside `with catchtime() as t`: __exit__ records the
\* elapsed time, and unless it suppresses the exception the script ends.
RaiseInCatchtime(exc, after) ==
    /\ t2' = [t2 EXCEPT !.seconds = "elapsed"]
    /\ IF catchtime_exit(exc)
          THEN pc' = after /\ failure' = exc
          ELSE Raise(exc)

\* lines 11-17
T2Guard ==
    /\ At("tut2", "t2_guard")
    /\ IF t2.is_main /\ ~is_interactive
          THEN /\ t2' = [t2 EXCEPT !.printed_notice = TRUE,
                                    !.exit_status = <<0>>]
               /\ pc' = "exited" /\ failure' = failure
          ELSE /\ t2' = t2
               /\ Goto("t2_setup")
    /\ UNCHANGED <<script, loads, train_steps, notT2>>

\* lines 19-68
T2Setup ==
    /\ At("tut2", "t2_setup")
    /\ LET o == [deviceIterations |-> T2.device_iterations,
                 replicationFactor |-> T2.replicas, synthetic |-> FALSE]
       IN t2' = [t2 EXCEPT !.opts = o, !.training_model = o,
                           !.has_model = TRUE]
    /\ Goto("t2_dataset")
    /\ UNCHANGED <<script, loads, train_steps, notT2>>

\* lines 70-72
T2Dataset ==
    /\ At("tut2", "t2_dataset")
    /\ loads' = loads + 1
    /\ Goto("t2_loader1")
    /\ UNCHANGED <<script, train_steps, t2, notT2>>

\* lines 74-82
T2Loader1 ==
    /\ At("tut2", "t2_loader1")
    /\ t2' = [t2 EXCEPT !.loaders = Append(@, NewLoader(t2.opts, T2.batch_size))]
    /\ Goto("t2_time1")
    /\ UNCHANGED <<script, loads, train_steps, notT2>>

\* lines 94-96: steps = len(training_data); with catchtime() as t: for ...
T2Time1 ==
    /\ At("tut2", "t2_time1")
    /\ t2' = [t2 EXCEPT !.steps = t2.loaders[Cur].len, !.seconds = "started",
                        !.loaders = IterLoader(@)]
    /\ Goto("t2_iter1")
    /\ UNCHANGED <<script, loads, train_steps, notT2>>

\* lines 96-97
T2Iter1 ==
    /\ At("tut2", "t2_iter1")
    /\ t2.loaders[Cur].served < t2.loaders[Cur].len
    /\ t2' = [t2 EXCEPT !.loaders = NextBatch(@)]
    /\ Goto("t2_iter1")
    /\ UNCHANGED <<script, loads, train_steps, notT2>>

\* line 96 raising
T2Iter1Fails ==
    /\ At("tut2", "t2_iter1")
    /\ t2.loaders[Cur].served < t2.loaders[Cur].len
    /\ RaiseInCatchtime("LoaderError", "t2_terminate1")
    /\ UNCHANGED <<script, loads, train_steps, notT2>>

\* lines 96-101: the loader is exhausted, the with-block ends
T2Time1End ==
    /\ At("tut2", "t2_iter1")
    /\ t2.loaders[Cur].served = t2.loaders[Cur].len
    /\ t2' = [t2 EXCEPT !.seconds = "elapsed"]
    /\ Goto("t2_terminate1")
    /\ UNCHANGED <<script, loads, train_steps, notT2>>

\* line 103
T2Terminate1 ==
    /\ At("tut2", "t2_terminate1")
    /\ t2' = [t2 EXCEPT !.loaders = TerminateLoader(@)]
    /\ Goto("t2_setup2")
    /\ UNCHANGED <<script, loads, train_steps, notT2>>

\* lines 105-114
T2Setup2 ==
    /\ At("tut2", "t2_setup2")
    /\ LET o == [deviceIterations |-> T2.device_iterations,
                 replicationFactor |-> T2.replicas, synthetic |-> TRUE]
       IN t2' = [t2 EXCEPT !.opts = o, !.training_model = o]
    /\ Goto("t2_loader2")
    /\ UNCHANGED <<script, loads, train_steps, notT2>>

\* lines 115-124
T2Loader2 ==
    /\ At("tut2", "t2_loader2")
    /\ t2' = [t2 EXCEPT !.loaders = Append(@, NewLoader(t2.opts, T2.batch_size))]
    /\ Goto("t2_compile")
    /\ UNCHANGED <<script, loads, train_steps, notT2>>

\* lines 125-134: one batch is taken from the loader, the model is compiled,
\* and the timed loop starts
T2Compile ==
    /\ At("tut2", "t2_compile")
    /\ IF t2.loaders[Cur].len = 0
          THEN /\ t2' = [t2 EXCEPT !.steps = 0, !.loaders = IterLoader(@)]
               /\ Raise("StopIteration")
          ELSE /\ t2' = [t2 EXCEPT !.steps = t2.loaders[Cur].len,
                                   !.loaders = NextBatch(IterLoader(@)),
                                   !.has_batch = TRUE,
                                   !.data_batch = BatchOf(t2.loaders[Cur]),
                                   !.seconds = "started", !.k = 0]
               /\ Goto("t2_train2")
    /\ UNCHANGED <<script, loads, train_steps, notT2>>

\* lines 135-136
T2Train2 ==
    /\ At("tut2", "t2_train2")
    /\ t2.k < t2.steps
    /\ t2' = [t2 EXCEPT !.k = @ + 1,
                        !.invoked = Invoke(t2.training_model, t2.data_batch)]
    /\ train_steps' = train_steps + 1
    /\ Goto("t2_train2")
    /\ UNCHANGED <<script, loads, notT2>>

\* line 136 raising
T2Train2Fails ==
    /\ At("tut2", "t2_train2")
    /\ t2.k < t2.steps
    /\ RaiseInCatchtime("StepError", "t2_terminate2")
    /\ UNCHANGED <<script, loads, train_steps, notT2>>

\* lines 135-140
T2Train2End ==
    /\ At("tut2", "t2_train2")
    /\ t2.k = t2.steps
    /\ t2' = [t2 EXCEPT !.seconds = "elapsed"]
    /\ Goto("t2_terminate2")
    /\ UNCHANGED <<script, loads, train_steps, notT2>>

\* line 142
T2Terminate2 ==
    /\ At("tut2", "t2_terminate2")
    /\ t2' = [t2 EXCEPT !.loaders = TerminateLoader(@), !.call = 1]
    /\ Goto("t2_call")
    /\ UNCHANGED <<script, loads, train_steps, notT2>>

\* validate_model_performance, lines 148-161: the call's own opts and
\* loader, and the first timed loop starts
T2Validate ==
    /\ At("tut2", "t2_call")
    /\ t2.call <= Len(T2Calls)
    /\ LET a == T2Calls[t2.call]
           o == [deviceIterations |-> a.device_iterations,
                 replicationFactor |-> a.replicas,
                 synthetic |-> a.synthetic_data]
           l == NewLoader(o, a.batch_size)
       IN t2' = [t2 EXCEPT !.v_opts = o,
                           !.loaders = IterLoader(Append(@, l)),
                           !.steps = l.len, !.seconds = "started"]
    /\ Goto("t2_v_iter")
    /\ UNCHANGED <<script, loads, train_steps, notT2>>

\* lines 161-162: data_batch is now the function's own variable
T2VIter ==
    /\ At("tut2", "t2_v_iter")
    /\ t2.loaders[Cur].served < t2.loaders[Cur].len
    /\ t2' = [t2 EXCEPT !.loaders = NextBatch(@),
                        !.data_batch = BatchOf(t2.loaders[Cur])]
    /\ Goto("t2_v_iter")
    /\ UNCHANGED <<script, loads, train_steps, notT2>>

\* line 161 raising
T2VIterFails ==
    /\ At("tut2", "t2_v_iter")
    /\ t2.loaders[Cur].served < t2.loaders[Cur].len
    /\ RaiseInCatchtime("LoaderError", "t2_v_train")
    /\ UNCHANGED <<script, loads, train_steps, notT2>>

\* lines 161-176: the first loop ends and the second timed loop starts; it
\* iterates the loader again unless the data is synthetic
T2VIterEnd ==
    /\ At("tut2", "t2_v_iter")
    /\ t2.loaders[Cur].served = t2.loaders[Cur].len
    /\ t2' = [t2 EXCEPT !.seconds = "started", !.k = 0,
                        !.loaders = IF t2.v_opts.synthetic THEN @
                                    ELSE IterLoader(@)]
    /\ Goto("t2_v_train")
    /\ UNCHANGED <<script, loads, train_steps, notT2>>

\* lines 172-173: training_model(data_batch, labels_batch), steps times
T2VTrainSynthetic ==
    /\ At("tut2", "t2_v_train")
    /\ t2.v_opts.synthetic
    /\ t2.k < t2.steps
    /\ t2' = [t2 EXCEPT !.k = @ + 1,
                        !.invoked = Invoke(t2.training_model, t2.data_batch)]
    /\ train_steps' = train_steps + 1
    /\ Goto("t2_v_train")
    /\ UNCHANGED <<script, loads, notT2>>

\* lines 176-177: training_model(data, labels) for each batch of the loader
T2VTrain ==
    /\ At("tut2", "t2_v_train")
    /\ ~t2.v_opts.synthetic
    /\ t2.loaders[Cur].served < t2.loaders[Cur].len
    /\ t2' = [t2 EXCEPT !.loaders = NextBatch(@),
                        !.invoked = Invoke(t2.training_model,
                                           BatchOf(t2.loaders[Cur]))]
    /\ train_steps' = train_steps + 1
    /\ Goto("t2_v_train")
    /\ UNCHANGED <<script, loads, notT2>>

\* line 173 or 177 raising
T2VTrainFails ==
    /\ At("tut2", "t2_v_train")
    /\ IF t2.v_opts.synthetic
          THEN t2.k < t2.steps
          ELSE t2.loaders[Cur].served < t2.loaders[Cur].len
    /\ RaiseInCatchtime("StepError", "t2_v_terminate")
    /\ UNCHANGED <<script, loads, train_steps, notT2>>

\* lines 172-181: the second loop ends
T2VTrainEnd ==
    /\ At("tut2", "t2_v_train")
    /\ IF t2.v_opts.synthetic
          THEN t2.k = t2.steps
          ELSE t2.loaders[Cur].served = t2.loaders[Cur].len
    /\ t2' = [t2 EXCEPT !.seconds = "elapsed"]
    /\ Goto("t2_v_terminate")
    /\ UNCHANGED <<script, loads, train_steps, notT2>>

\* line 183, and the return to the module
T2VTerminate ==
    /\ At("tut2", "t2_v_terminate")
    /\ t2' = [t2 EXCEPT !.loaders = TerminateLoader(@), !.call = @ + 1]
    /\ Goto("t2_call")
    /\ UNCHANGED <<script, loads, train_steps, notT2>>

\* line 200 was the last statement
T2Finish ==
    /\ At("tut2", "t2_call")
    /\ t2.call > Len(T2Calls)
    /\ Goto("done")
    /\ UNCHANGED <<script, loads, train_steps, t2, notT2>>

T2Next ==
    \/ T2Guard \/ T2Setup \/ T2Dataset \/ T2Loader1 \/ T2Time1 \/ T2Iter1
    \/ T2Iter1Fails \/ T2Time1End \/ T2Terminate1 \/ T2Setup2 \/ T2Loader2
    \/ T2Compile \/ T2Train2 \/ T2Train2Fails \/ T2Train2End \/ T2Terminate2
    \/ T2Validate \/ T2VIter \/ T2VIterFails \/ T2VIterEnd
    \/ T2VTrainSynthetic \/ T2VTrain \/ T2VTrainFails \/ T2VTrainEnd
    \/ T2VTerminate \/ T2Finish

(***************************************************************************)
(* make_divisible, taken alone: applied to drawn arguments, then applied   *)
(* again to its own result.                                                *)
(***************************************************************************)
MdIdle == number = 0 /\ divisor = 1 /\ result = 0 /\ again = 0

MdInit ==
    /\ Start("demo", "md_call")
    /\ DemoInputsIdle /\ DemoIdle
    /\ tf2 = Tf2Idle /\ pt = PtIdle /\ t1 = T1Idle /\ tf1 = Tf1Idle
    /\ t2 = T2Idle
    /\ number \in 0..MaxNumber
    /\ divisor \in 1..MaxDivisor
    /\ result = 0 /\ again = 0

MdCall ==
    /\ At("demo", "md_call")
    /\ result' = make_divisible(number, divisor)
    /\ Goto("md_again")
    /\ UNCHANGED <<script, loads, train_steps, demoVars, number, divisor, again,
                   tf2, pt, t1, tf1, t2>>

MdAgain ==
    /\ At("demo", "md_again")
    /\ again' = make_divisible(result, divisor)
    /\ Goto("md_done")
    /\ UNCHANGED <<script, loads, train_steps, demoVars, number, divisor, result,
                   tf2, pt, t1, tf1, t2>>

MdNext == MdCall \/ MdAgain

SpecMakeDivisible == MdInit /\ [][MdNext]_vars

(***************************************************************************)
(* The repository: one run executes one script.                            *)
(***************************************************************************)
Init ==
    \/ DemoInit /\ MdIdle /\ tf2 = Tf2Idle /\ pt = PtIdle /\ t1 = T1Idle
          /\ tf1 = Tf1Idle /\ t2 = T2Idle
    \/ Tf2Init /\ DemoInputsIdle /\ DemoIdle /\ MdIdle /\ pt = PtIdle
          /\ t1 = T1Idle /\ tf1 = Tf1Idle /\ t2 = T2Idle
    \/ PtInit /\ DemoInputsIdle /\ DemoIdle /\ MdIdle /\ tf2 = Tf2Idle
          /\ t1 = T1Idle /\ tf1 = Tf1Idle /\ t2 = T2Idle
    \/ T1Init /\ DemoInputsIdle /\ DemoIdle /\ MdIdle /\ tf2 = Tf2Idle
          /\ pt = PtIdle /\ tf1 = Tf1Idle /\ t2 = T2Idle
    \/ Tf1Init /\ DemoInputsIdle /\ DemoIdle /\ MdIdle /\ tf2 = Tf2Idle
          /\ pt = PtIdle /\ t1 = T1Idle /\ t2 = T2Idle
    \/ T2Init /\ DemoInputsIdle /\ DemoIdle /\ MdIdle /\ tf2 = Tf2Idle
          /\ pt = PtIdle /\ t1 = T1Idle /\ tf1 = Tf1Idle

Next ==
    \/ DemoNext
    \/ Tf2Next
    \/ PtNext
    \/ T1Next
    \/ Tf1Next
    \/ T2Next

Spec == Init /\ [][Next]_vars

(***************************************************************************)
(* Claims                                                                  *)
(***************************************************************************)
\* Positions of demo_code_only.py at which the training length of the
\* current section has been adjusted, and those at which the test length
\* has been adjusted too.
TrainAdjusted ==
    /\ script = "demo"
    /\ pc \in {"spe_adjust_test", "spe_run", "repl_adjust_test", "repl_run",
               "pipe_adjust_test", "pipe_run"}

TestAdjusted == script = "demo" /\ pc \in {"spe_run", "repl_run", "pipe_run"}

\* C1, as stated: after the divisibility adjustment of the
\* steps_per_execution, replication and pipelining sections the dataset
\* length is an exact multiple of batch size * steps-per-execution *
\* replica count.
C1_MultipleOfBatchStepsReplicas ==
    /\ TrainAdjusted =>
          train_data_len
              % (batch_size * train_steps_per_execution * num_replicas) = 0
    /\ TestAdjusted =>
          test_data_len
              % (batch_size * test_steps_per_execution * num_replicas) = 0

\* C1, amended: after the adjustment the steps-per-execution is positive and
\* the dataset length is a positive exact multiple of batch size *
\* steps-per-execution (the replica count is not a factor), no longer than
\* the loaded dataset.
C1_MultipleOfBatchSteps ==
    /\ TrainAdjusted =>
          /\ train_steps_per_execution > 0
          /\ train_data_len % (batch_size * train_steps_per_execution) = 0
          /\ train_data_len > 0
          /\ train_data_len <= mnist_train_len
          /\ x_train_len = train_data_len
    /\ TestAdjusted =>
          /\ test_steps_per_execution > 0
          /\ test_data_len % (batch_size * test_steps_per_execution) = 0
          /\ test_data_len > 0
          /\ test_data_len <= mnist_test_len
          /\ x_test_len = test_data_len

\* C1 witness: the replication section has adjusted both lengths, and the
\* training length lost items to the adjustment.
C1_Witness ==
    /\ At("demo", "repl_run")
    /\ num_replicas = 2
    /\ train_data_len < mnist_train_len
    /\ test_data_len > 0

\* C2: make_divisible(number, divisor) is the largest multiple of divisor
\* that is <= number, and make_divisible of the result is the result.
C2_RoundsDown ==
    /\ pc \in {"md_again", "md_done"} =>
          /\ result % divisor = 0
          /\ result <= number
          /\ number - result < divisor
          /\ \A k \in 0..number : k % divisor = 0 => k <= result
    /\ pc = "md_done" => again = result

\* C2 witness: a number that is no multiple of the divisor was rounded to a
\* positive multiple, and the function was applied again.
C2_Witness ==
    /\ pc = "md_done"
    /\ number % divisor # 0
    /\ result > 0

\* C3, as stated: each of the five flags takes effect: the loaders, the
\* options and the training model are constructed with the value given on
\* the command line, or with the flag's declared default.
C3_FlagsTakeEffect ==
    script = "mnist_poptorch" =>
        LET want == [f \in Flags |-> IF pt.argv[f] = "given"
                                        THEN ArgGiven[f] ELSE ArgDefaults[f]]
        IN /\ pt.training_data # NoLoader =>
                 /\ pt.training_data.batch_size = want.batch_size
                 /\ pt.training_data.deviceIterations = want.device_iterations
           /\ pt.test_data # NoLoader =>
                 pt.test_data.batch_size = want.test_batch_size
           /\ pt.training_model.exists =>
                 /\ pt.training_model.lr = want.lr
                 /\ pt.training_model.deviceIterations = want.device_iterations
           /\ pc = "pt_train_loop" => pt.epochs = want.epochs

\* C4: with a version string whose first character is not '2' the script
\* raises ImportError before it configures the IPU, creates a strategy, a
\* model or a dataset, or trains; with '2' the check raises nothing and the
\* IPU configuration is the next thing done.
C4_VersionCheck ==
    script = "mnist_tf2" =>
        /\ tf2.version[1] # "2" =>
              /\ tf2.effects = <<>>
              /\ loads = 0 /\ train_steps = 0
              /\ pc \in {"tf2_version_check", "failed"}
              /\ pc = "failed" => failure = "ImportError"
        /\ tf2.version[1] = "2" =>
              /\ failure # "ImportError"
              /\ pc \in {"tf2_version_check", "tf2_configure"} => tf2.effects = <<>>
              /\ pc \notin {"tf2_version_check", "tf2_configure"} =>
                    /\ Len(tf2.effects) > 0
                    /\ tf2.effects[1] = "configure_ipu_system"

\* C4 witness: a version that does not start with '2' ended the script with
\* ImportError.
C4_Witness ==
    /\ At("mnist_tf2", "failed")
    /\ failure = "ImportError"
    /\ tf2.version[1] # "2"

\* C5, as stated: once the test loop is over an accuracy is reported, and it
\* is between 0 and 100, also when the test loader has zero batches.
C5_AccuracyReported ==
    (script = "mnist_poptorch" /\ pt.inference_model /\ pc \in {"done", "failed"}) =>
        /\ Len(pt.reported) = 1
        /\ 0 <= pt.reported[1].sum
        /\ pt.reported[1].sum <= 100 * pt.reported[1].batches

\* C6: every loader but the last created has been terminated exactly once
\* (so before the next one was created), none is iterated after it was
\* terminated, none is terminated twice, and when the script ends all six
\* loaders have been terminated.
C6_LoadersTerminated ==
    script = "tut2" =>
        /\ \A n \in 1..Len(t2.loaders) :
              /\ ~t2.loaders[n].used_after_terminate
              /\ t2.loaders[n].terminated <= 1
              /\ n < Len(t2.loaders) => t2.loaders[n].terminated = 1
        /\ pc = "done" =>
              /\ Len(t2.loaders) = 2 + Len(T2Calls)
              /\ \A n \in 1..Len(t2.loaders) : t2.loaders[n].terminated = 1
        /\ pc \in {"t2_terminate1", "t2_terminate2", "t2_v_terminate"} =>
              t2.loaders[Len(t2.loaders)].terminated = 0

\* C6 witness: the script ran to its end, all loaders created.
C6_Witness ==
    /\ At("tut2", "done")
    /\ Len(t2.loaders) = 6
    /\ failure = "none"

\* C7: once a step has failed the script has ended with that failure: no
\* statement runs after it, so no training step, and a failure inside a
\* catchtime block has its elapsed time recorded and is not suppressed.
C7_NoRecovery ==
    /\ [](failure # "none" => pc = "failed")
    /\ [](script = "tut2" /\ failure # "none" => t2.seconds = "elapsed")
    /\ [][failure # "none" => (train_steps' = train_steps /\ pc' = pc)]_vars

\* C7 witness: a training step inside a catchtime block failed after other
\* steps had run.
C7_Witness ==
    /\ At("tut2", "failed")
    /\ failure = "StepError"
    /\ train_steps > 0
    /\ t2.seconds = "elapsed"

\* C8, as stated: in every script the dataset is loaded once, before any
\* training step, and not again.
C8_LoadedOnce ==
    /\ loads <= 1
    /\ train_steps > 0 => loads = 1

\* The section of demo_code_only.py a position belongs to, 1..5.
DemoSection ==
    CASE pc \in {"cpu_load", "cpu_run"} -> 1
      [] pc \in {"ipu_load", "ipu_adjust_train", "ipu_adjust_test", "ipu_run"} -> 2
      [] pc \in {"spe_load", "spe_adjust_train", "spe_adjust_test", "spe_run"} -> 3
      [] pc \in {"repl_load", "repl_adjust_train", "repl_adjust_test", "repl_run"} -> 4
      [] pc \in {"pipe_load", "pipe_adjust_train", "pipe_adjust_test", "pipe_run"} -> 5
      [] OTHER -> 0

\* C8, amended: every script but demo_code_only.py loads the dataset once,
\* before any training step, and not again; demo_code_only.py calls
\* load_data() at the start of each of its five sections, each time before
\* that section trains.
C8_LoadedOncePerSection ==
    /\ script # "demo" =>
          /\ loads <= 1
          /\ train_steps > 0 => loads = 1
    /\ script = "demo" =>
          /\ loads <= 5
          /\ train_steps <= loads
          /\ DemoSection # 0 =>
                loads = IF pc \in {"cpu_load", "ipu_load", "spe_load",
                                   "repl_load", "pipe_load"}
                           THEN DemoSection - 1 ELSE DemoSection
          /\ DemoSection # 0 => train_steps = DemoSection - 1
          /\ pc = "done" => loads = 5 /\ train_steps = 5

\* C8 witness: demo_code_only.py ran to its end.
C8_Witness ==
    /\ At("demo", "done")
    /\ loads = 5

RECURSIVE SumRange(_, _, _)
\* The sum of q[a..b].
SumRange(q, a, b) == IF a > b THEN 0 ELSE q[a] + SumRange(q, a + 1, b)

\* C9: batches_per_epoch is floor(len / BATCHSIZE); a run that ends has
\* executed EPOCHS * batches_per_epoch steps; the running total is 0 when an
\* epoch's first batch starts; the loss printed for epoch e is the sum of the
\* losses of that epoch's batches_per_epoch steps, over batches_per_epoch.
C9_EpochLoss ==
    script \in Tf1Scripts =>
        /\ pc \notin {"tf1_load_data", "tf1_batches_per_epoch"} =>
              /\ tf1.batches_per_epoch * BATCHSIZE <= tf1.x_train
              /\ tf1.x_train < (tf1.batches_per_epoch + 1) * BATCHSIZE
        /\ pc = "done" =>
              /\ train_steps = EPOCHS * tf1.batches_per_epoch
              /\ Len(tf1.printed) = EPOCHS
        /\ (pc = "tf1_batch" /\ tf1.j = 0) => tf1.loss_running_total = 0
        /\ Len(tf1.step_losses) = train_steps
        /\ \A e \in 1..Len(tf1.printed) :
              /\ tf1.printed[e].batches = tf1.batches_per_epoch
              /\ e * tf1.batches_per_epoch <= train_steps
              /\ tf1.printed[e].total =
                    SumRange(tf1.step_losses,
                             (e - 1) * tf1.batches_per_epoch + 1,
                             e * tf1.batches_per_epoch)

\* C9 witness: a run of several batches per epoch ended, and two epochs
\* printed different losses.
C9_Witness ==
    /\ script \in Tf1Scripts /\ pc = "done"
    /\ tf1.batches_per_epoch = 2
    /\ tf1.printed[1].total # tf1.printed[2].total

\* C10: an inference model exists, or an inference call was made, only once
\* the training model has been detached and every one of the epochs * steps
\* training steps has run; once detached the number of training steps stays
\* at that total; tut1 has saved the weights after the last training step
\* and before the inference model is created.
C10_PhaseOrder ==
    /\ script = "mnist_poptorch" =>
          LET total == IF pt.epochs > 0 THEN pt.epochs * pt.training_data.len
                       ELSE 0
          IN /\ (pt.inference_model \/ pt.inference_calls > 0) =>
                   /\ pt.training_model.detached
                   /\ ~pt.training_model.attached
             /\ pt.training_model.detached => train_steps = total
             /\ pt.training_model.exists => train_steps <= total
    /\ script = "tut1" =>
          LET total == t1.epochs * t1.train_dataloader
          IN /\ (t1.poptorch_model_inf.exists \/ t1.inference_calls > 0) =>
                   /\ t1.poptorch_model.detached
                   /\ ~t1.poptorch_model.attached
                   /\ t1.saved
             /\ t1.poptorch_model.detached => train_steps = total
             /\ t1.saved => t1.poptorch_model.detached
             /\ t1.poptorch_model.exists => train_steps <= total

\* C10 witness: both scripts made inference calls after training steps.
C10_Witness ==
    \/ /\ At("tut1", "done") /\ t1.inference_calls > 0 /\ train_steps > 30
    \/ /\ At("mnist_poptorch", "done") /\ pt.inference_calls > 1
       /\ train_steps > 2

\* C11: the steps_per_execution that the replication section passes to
\* compile, for training and for evaluation, is divisible by the number of
\* replicas, and the one the pipelining section passes is divisible by
\* total_gradient_accumulation_steps.
C11_StepsDivisible ==
    /\ At("demo", "repl_run") =>
          /\ num_replicas = 2
          /\ train_steps_per_execution % num_replicas = 0
          /\ test_steps_per_execution % num_replicas = 0
    /\ At("demo", "pipe_run") =>
          /\ total_gradient_accumulation_steps = 8
          /\ train_steps_per_execution % total_gradient_accumulation_steps = 0
          /\ test_steps_per_execution % total_gradient_accumulation_steps = 0

\* C11 witness: the pipelining section is about to compile, and the rounding
\* of the steps took some away.
C11_Witness ==
    /\ At("demo", "pipe_run")
    /\ train_steps_per_execution > 0
    /\ train_steps_per_execution < mnist_train_len \div batch_size

\* C12: run as the main module of a process whose main module has __file__,
\* the tut2 walkthrough prints its notice and exits with status 0 before any
\* Options, model, dataset or data loader exists and before any training
\* step; when the main module has no __file__ the guard does not exit and
\* the script goes on.
C12_GuardExits ==
    script = "tut2" =>
       /\ (t2.is_main /\ t2.main_has_file) =>
             /\ pc \in {"t2_guard", "exited"}
             /\ failure = "none"
             /\ loads = 0 /\ train_steps = 0 /\ t2.steps = 0
             /\ ~t2.has_model /\ t2.loaders = <<>>
             /\ t2.opts = NoOptions /\ t2.training_model = NoOptions
             /\ pc = "exited" =>
                   t2.printed_notice /\ t2.exit_status = <<0>>
       /\ ~t2.main_has_file =>
             /\ pc # "exited"
             /\ ~t2.printed_notice /\ t2.exit_status = <<>>

\* C12 witness: the script was the main module of a non-interactive process
\* and has exited.
C12_Witness ==
    /\ script = "tut2" /\ pc = "exited"
    /\ t2.is_main /\ t2.main_has_file /\ t2.exit_status = <<0>>

\* The other case of C12: an interactive main module got past the guard and
\* trained.
C12_WitnessInteractive ==
    /\ script = "tut2" /\ t2.is_main /\ ~t2.main_has_file
    /\ train_steps > 0

\* The replication (4th load) or pipelining (5th load) section has computed
\* its training steps_per_execution, resp. its test steps_per_execution.
ReplPipeTrainComputed ==
    /\ script = "demo" /\ loads \in {4, 5}
    /\ pc \notin {"repl_adjust_train", "pipe_adjust_train"}
ReplPipeTestComputed ==
    /\ ReplPipeTrainComputed
    /\ pc \notin {"repl_adjust_test", "pipe_adjust_test"}
    /\ ~(pc = "failed" /\ train_steps_per_execution = 0)

\* What the section makes its steps_per_execution divisible by.
ReplPipeMultiple ==
    IF loads = 4 THEN num_replicas ELSE total_gradient_accumulation_steps

\* C13 as stated: in the replication and pipelining sections, a dataset of
\* at least batch_size * num_replicas items gets a steps_per_execution of at
\* least 1, so the adjustment of its length does not divide by zero and the
\* adjusted length is positive.
C13_StepsAtLeastOne ==
    /\ (ReplPipeTrainComputed /\ mnist_train_len >= batch_size * num_replicas)
          => /\ train_steps_per_execution >= 1
             /\ train_data_len > 0
             /\ failure # "ZeroDivisionError"
    /\ (ReplPipeTestComputed /\ mnist_test_len >= batch_size * num_replicas)
          => /\ test_steps_per_execution >= 1
             /\ test_data_len > 0
             /\ failure # "ZeroDivisionError"

\* C13 amended: the steps_per_execution is at least 1, the division is safe
\* and the adjusted length positive exactly for the datasets of at least
\* batch_size * num_replicas * m items, m being what the steps are made
\* divisible by (2 replicas; 8 gradient accumulation steps); a shorter
\* dataset gets 0 steps and the adjustment raises ZeroDivisionError.
C13_StepsAtLeastOneFromMultiple ==
    /\ ReplPipeTrainComputed =>
          IF mnist_train_len >= batch_size * num_replicas * ReplPipeMultiple
             THEN /\ train_steps_per_execution >= 1
                  /\ train_data_len > 0
                  /\ train_data_len % (batch_size * train_steps_per_execution) = 0
                  /\ ~(pc = "failed" /\ test_steps_per_execution > 0)
             ELSE /\ train_steps_per_execution = 0
                  /\ pc = "failed" /\ failure = "ZeroDivisionError"
    /\ ReplPipeTestComputed =>
          IF mnist_test_len >= batch_size * num_replicas * ReplPipeMultiple
             THEN /\ test_steps_per_execution >= 1
                  /\ test_data_len > 0
                  /\ test_data_len % (batch_size * test_steps_per_execution) = 0
                  /\ pc # "failed"
             ELSE /\ test_steps_per_execution = 0
                  /\ pc = "failed" /\ failure = "ZeroDivisionError"

\* C13 witness: the replication section got one round of steps out of the
\* shortest training set that allows it.
C13_Witness ==
    /\ At("demo", "repl_adjust_test")
    /\ mnist_train_len = batch_size * num_replicas * num_replicas
    /\ train_steps_per_execution = num_replicas
    /\ train_data_len = mnist_train_len

\* The case C13 gets wrong: a training set of at least
\* batch_size * num_replicas items in the replication section, and the
\* adjustment divided by zero.
C13_WitnessZero ==
    /\ script = "demo" /\ loads = 4 /\ pc = "failed"
    /\ mnist_train_len >= batch_size * num_replicas
    /\ train_steps_per_execution = 0
    /\ failure = "ZeroDivisionError"

\* C14: whenever the tut2 training model is called on a batch, the model
\* was built with the device iterations and the replication factor of the
\* loader that produced the batch, in the calls of
\* validate_model_performance with replicas=4 too.
C14_ModelMatchesLoader ==
    (script = "tut2" /\ t2.invoked # <<>>) =>
        /\ t2.invoked[1].model.deviceIterations
              = t2.invoked[1].batch.deviceIterations
        /\ t2.invoked[1].model.replicationFactor
              = t2.invoked[1].batch.replicationFactor

\* C15: in the TF1 examples and in mnist_code_only.py the iterator over the
\* dataset is initialised before the first training step, and with a
\* dataset of at least one batch the repeated dataset never runs out: every
\* step gets a full batch, and all EPOCHS * batches_per_epoch steps (TF1),
\* resp. all epochs * steps_per_epoch steps (TF2), more than one pass over
\* the data holds, are done.
C15_NeverExhausted ==
    /\ script \in Tf1Scripts =>
          /\ train_steps > 0 => tf1.iterator_initialised
          /\ tf1.full_batches = train_steps
          /\ tf1.x_train >= BATCHSIZE =>
                /\ failure \notin {"OutOfRangeError", "FailedPreconditionError"}
                /\ tf1.iterator_pos = (train_steps * BATCHSIZE) % tf1.x_train
                /\ pc = "done" =>
                      train_steps = EPOCHS * (tf1.x_train \div BATCHSIZE)
    /\ script = "mnist_tf2" =>
          /\ train_steps > 0 => tf2.iterator /\ loads = 1
          /\ tf2.steps_done = train_steps
          /\ (tf2.x_train >= Tf2.batch /\ tf2.version[1] = "2") =>
                /\ ~tf2.ran_out
                /\ failure = "none"
                /\ tf2.k = train_steps % (tf2.x_train \div Tf2.batch)
                /\ pc = "done" =>
                      train_steps = Tf2.epochs * Tf2.steps_per_epoch

\* C15 witness: fit has done its 4 * 2000 steps on the 60000 items of MNIST,
\* more steps than the 1875 batches of one pass.
C15_Witness ==
    /\ At("mnist_tf2", "done")
    /\ tf2.x_train = 60000
    /\ tf2.x_train \div Tf2.batch = 1875
    /\ train_steps = 8000
    /\ train_steps > tf2.x_train \div Tf2.batch

\* The TF1 case of C15: a dataset that is no multiple of the batch size, and
\* the last step took a batch across the end of a pass.
C15_WitnessTf1 ==
    /\ script \in Tf1Scripts /\ pc = "done"
    /\ tf1.x_train % BATCHSIZE # 0
    /\ train_steps = EPOCHS * tf1.batches_per_epoch
    /\ train_steps * BATCHSIZE > tf1.x_train
    /\ tf1.iterator_pos < BATCHSIZE

====
